---- MODULE Spec2Model ----
(***************************************************************************)
(* Model of src/main.py: the hotel evaluation pipeline                     *)
(*   orchestrator -> google_hotel_agent -> combiner_agent -> scorer_agent  *)
(* and the review analysis engine (analyze_hotel_reviews and its two       *)
(* strategies).                                                            *)
(*                                                                         *)
(* Representation.                                                         *)
(*   - A Python dict is a function whose domain is its set of keys; a key  *)
(*     that is absent from the dict is absent from the domain.             *)
(*   - A Python list is a sequence.                                        *)
(*   - A number with one decimal is the integer number of tenths           *)
(*     (8.5 is 85); intermediate quotients are kept exact as num/den.      *)
(*   - A review text is the sequence of its words; a substring test on the *)
(*     text is a test for a contiguous run of words.                       *)
(*   - A rating is the sequence of its characters, parsed by float.        *)
(*   - A value whose Python type varies at run time (what the analysis     *)
(*     engine returns, what json.loads returns) carries its type: see      *)
(*     PyNum, PyStr, PyList, PyDict, PyNone.                               *)
(*   - An exception in flight is the record Raise(kind).                   *)
(***************************************************************************)
EXTENDS FiniteSets, Integers, Sequences, TLC

VARIABLES pc, context, trace, listingCalls, modelCalls, args, ret

vars == <<pc, context, trace, listingCalls, modelCalls, args, ret>>

(***************************************************************************)
(* Bounds of the model.                                                    *)
(***************************************************************************)
MaxReviews == 2

(***************************************************************************)
(* Python values and exceptions.                                           *)
(***************************************************************************)
PyNum(n) == [t |-> "number", num |-> n]

PyStr(s) == [t |-> "str", str |-> s]

PyList(l) == [t |-> "list", items |-> l]

PyDict(d) == [t |-> "dict", map |-> d]

PyNone == [t |-> "None"]

Raise(kind) == [raise |-> kind]

IsRaise(v) == "raise" \in DOMAIN v

\* dict.get(key, default)
Get(d, k, default) == IF k \in DOMAIN d THEN d[k] ELSE default

\* d[key] = value
Put(d, k, v) == (k :> v) @@ d

EmptyDict == [k \in {} |-> 0]

RECURSIVE SumSeq(_)
SumSeq(s) == IF s = <<>> THEN 0 ELSE Head(s) + SumSeq(Tail(s))

RECURSIVE Join(_, _)
\* sep.join(strs)
Join(strs, sep) ==
    IF strs = <<>> THEN ""
    ELSE IF Len(strs) = 1 THEN strs[1]
    ELSE strs[1] \o sep \o Join(Tail(strs), sep)

Min2(a, b) == IF a < b THEN a ELSE b

Max2(a, b) == IF a > b THEN a ELSE b

\* round(num/den, 0) for num >= 0, den > 0: nearest integer, a tie to even
\* (the quotients are numbers of tenths, so this is round(x, 1)).
Round1(num, den) ==
    LET q == num \div den
        r == num % den
    IN  IF 2 * r < den THEN q
        ELSE IF 2 * r > den THEN q + 1
        ELSE IF q % 2 = 0 THEN q ELSE q + 1

\* f"{x}" of a float with one decimal, x in tenths, x >= 0
FmtTenths(x) == ToString(x \div 10) \o "." \o ToString(x % 10)

(***************************************************************************)
(* str.lower() on the words of the vocabulary.                             *)
(***************************************************************************)
Lower(w) ==
    CASE w = "Great" -> "great"
      [] w = "Breakfast" -> "breakfast"
      [] w = "Clean" -> "clean"
      [] OTHER -> w

LowerText(text) == [i \in 1..Len(text) |-> Lower(text[i])]

\* `words in text`: words occurs in text as a contiguous run
Contains(text, words) ==
    \E i \in 1..(Len(text) - Len(words) + 1) :
        SubSeq(text, i, i + Len(words) - 1) = words

positive_words ==
    << <<"good">>, <<"great">>, <<"excellent">>, <<"amazing">>, <<"love">>,
       <<"best">>, <<"perfect">>, <<"wonderful">>, <<"fantastic">>,
       <<"awesome">> >>

negative_words ==
    << <<"bad">>, <<"poor">>, <<"terrible">>, <<"awful">>, <<"worst">>,
       <<"horrible">>, <<"disappointing">>, <<"disappointed">>,
       <<"not", "good">>, <<"not", "great">> >>

\* any(w in text for w in lexicon)
AnyIn(lexicon, text) ==
    \E i \in 1..Len(lexicon) : Contains(text, lexicon[i])

\* r.get('text', '').lower()
ReviewText(r) == LowerText(Get(r, "text", <<>>))

\* keyword.lower() in r.get('text', '').lower()
Mentions(r, keyword) == Contains(ReviewText(r), <<Lower(keyword)>>)

(***************************************************************************)
(* float(rating) on a rating given as its characters: an optional sign,    *)
(* digits, and optionally a point and one digit; anything else is a        *)
(* ValueError.  The value is in tenths.                                    *)
(***************************************************************************)
DigitVal ==
    [c \in {"0", "1", "2", "3", "4", "5", "6", "7", "8", "9"} |->
        CASE c = "0" -> 0 [] c = "1" -> 1 [] c = "2" -> 2 [] c = "3" -> 3
          [] c = "4" -> 4 [] c = "5" -> 5 [] c = "6" -> 6 [] c = "7" -> 7
          [] c = "8" -> 8 [] c = "9" -> 9]

IsDigits(s) == s # <<>> /\ \A i \in 1..Len(s) : s[i] \in DOMAIN DigitVal

RECURSIVE DigitsVal(_)
DigitsVal(s) ==
    IF s = <<>> THEN 0
    ELSE 10 * DigitsVal(SubSeq(s, 1, Len(s) - 1)) + DigitVal[s[Len(s)]]

UnsignedFloat(s) ==
    IF IsDigits(s) THEN [ok |-> TRUE, val |-> 10 * DigitsVal(s)]
    ELSE IF Len(s) >= 3 /\ s[Len(s) - 1] = "."
            /\ IsDigits(SubSeq(s, 1, Len(s) - 2))
            /\ s[Len(s)] \in DOMAIN DigitVal
         THEN [ok |-> TRUE,
               val |-> 10 * DigitsVal(SubSeq(s, 1, Len(s) - 2))
                         + DigitVal[s[Len(s)]]]
         ELSE [ok |-> FALSE, val |-> 0]

Negative(u) == [ok |-> u.ok, val |-> 0 - u.val]

ParseFloat(s) ==
    IF s # <<>> /\ s[1] = "-" THEN Negative(UnsignedFloat(Tail(s)))
    ELSE UnsignedFloat(s)

(***************************************************************************)
(* analyze_reviews_with_local_method (src/main.py 256-398).                *)
(***************************************************************************)
RECURSIVE Distinct(_)
\* the keys of a dict in insertion order, for the keys inserted in order s
Distinct(s) ==
    IF s = <<>> THEN <<>>
    ELSE LET init == Distinct(SubSeq(s, 1, Len(s) - 1))
             last == s[Len(s)]
         IN  IF \E i \in 1..Len(init) : init[i] = last
             THEN init ELSE Append(init, last)

\* sum(1 for r in reviews if cond(r)), for cond[i] the condition on review i
CountReviews(cond) == Cardinality({i \in DOMAIN cond : cond[i]})

MentionCount(reviews, keyword) ==
    CountReviews([i \in DOMAIN reviews |-> Mentions(reviews[i], keyword)])

\* the keys of keyword_mentions, in insertion order (lines 275-279)
keyword_mentions(reviews, keywords) ==
    SelectSeq(Distinct(keywords), LAMBDA k : MentionCount(reviews, k) > 0)

\* lines 285-289: float(rating) appended, a ValueError passed over
FloatAppended(f) == IF f.ok THEN <<f.val>> ELSE <<>>

\* lines 284-289: what one review adds to ratings
RatingAppended(rating) ==
    IF rating # <<>> THEN FloatAppended(ParseFloat(rating)) ELSE <<>>

RECURSIVE Ratings(_)
\* lines 282-289: the ratings that are truthy and that float() accepts
Ratings(reviews) ==
    IF reviews = <<>> THEN <<>>
    ELSE RatingAppended(Get(Head(reviews), "rating", <<>>))
            \o Ratings(Tail(reviews))

\* lines 303-311
positive_count(reviews) ==
    CountReviews([i \in DOMAIN reviews |->
        AnyIn(positive_words, ReviewText(reviews[i]))])

negative_count(reviews) ==
    CountReviews([i \in DOMAIN reviews |->
        AnyIn(negative_words, ReviewText(reviews[i]))])

\* lines 292-320, for the ratings found: overall_score before rounding, in
\* tenths, as num/den
OverallScore(reviews, ratings) ==
    IF ratings # <<>> /\ SumSeq(ratings) > 0
    THEN [num |-> 2 * SumSeq(ratings), den |-> Len(ratings)]
    ELSE [num |-> 50 * (positive_count(reviews) - negative_count(reviews)
                            + Len(reviews)),
          den |-> Len(reviews)]

\* lines 282-320
LocalOverall(reviews) == OverallScore(reviews, Ratings(reviews))

\* lines 345-350
MentionScore(reviews, keyword, positive_mentions, negative_mentions) ==
    IF positive_mentions + negative_mentions > 0
    THEN Round1(100 * positive_mentions, positive_mentions + negative_mentions)
    ELSE Round1(50 * Len(reviews) + 20 * MentionCount(reviews, keyword),
                Len(reviews))

\* lines 324-352: the score of one mentioned keyword
AspectScore(reviews, keyword) ==
    MentionScore(reviews, keyword,
        CountReviews([i \in DOMAIN reviews |->
            /\ Mentions(reviews[i], keyword)
            /\ AnyIn(positive_words, ReviewText(reviews[i]))]),
        CountReviews([i \in DOMAIN reviews |->
            /\ Mentions(reviews[i], keyword)
            /\ ~AnyIn(positive_words, ReviewText(reviews[i]))
            /\ AnyIn(negative_words, ReviewText(reviews[i]))]))

\* lines 355-360: the aspects made up when no keyword was mentioned
DefaultAspects == <<"overall experience", "value", "location">>

DefaultAspectScore(aspect, overall) ==
    CASE aspect = "overall experience" -> Round1(overall.num, overall.den)
      [] aspect = "value" ->
            Max2(30, Min2(Round1(overall.num - 10 * overall.den, overall.den), 100))
      [] aspect = "location" ->
            Max2(30, Min2(Round1(overall.num + 5 * overall.den, overall.den), 100))

\* lines 323-360: aspect_scores, for the keywords mentioned
AspectScores(reviews, mentioned, overall) ==
    IF mentioned = <<>>
    THEN [a \in {DefaultAspects[i] : i \in 1..Len(DefaultAspects)} |->
            DefaultAspectScore(a, overall)]
    ELSE [a \in {mentioned[i] : i \in 1..Len(mentioned)} |->
            AspectScore(reviews, a)]

\* the keys of aspect_scores, in insertion order
Aspects(mentioned) == IF mentioned = <<>> THEN DefaultAspects ELSE mentioned

\* line 367
mention_text(reviews, mentioned, a) ==
    IF mentioned # <<>>
    THEN " (mentioned in " \o ToString(MentionCount(reviews, a)) \o " reviews)"
    ELSE ""

\* line 376: max(aspect_scores.items(), key=score), the first of the best
best_aspect(aspects, aspect_scores) ==
    aspects[CHOOSE i \in 1..Len(aspects) :
                /\ \A j \in 1..Len(aspects) :
                      aspect_scores[aspects[j]] <= aspect_scores[aspects[i]]
                /\ \A j \in 1..(i - 1) :
                      aspect_scores[aspects[j]] < aspect_scores[aspects[i]]]

\* lines 366-377, for strong the aspects with a score of 7.0 or more
StrengthsOf(reviews, mentioned, aspect_scores, strong) ==
    IF strong # <<>>
    THEN [i \in 1..Len(strong) |->
            "Good " \o Lower(strong[i]) \o mention_text(reviews, mentioned, strong[i])]
    ELSE << "Relatively good "
                \o Lower(best_aspect(Aspects(mentioned), aspect_scores))
                \o " compared to other aspects" >>

Strengths(reviews, mentioned, aspect_scores) ==
    StrengthsOf(reviews, mentioned, aspect_scores,
        SelectSeq(Aspects(mentioned), LAMBDA a : aspect_scores[a] >= 70))

\* lines 366-372, for weak the aspects with a score of 4.0 or less
WeaknessesOf(reviews, mentioned, weak) ==
    [i \in 1..Len(weak) |->
        "Needs improvement in " \o Lower(weak[i])
            \o mention_text(reviews, mentioned, weak[i])]

Weaknesses(reviews, mentioned, aspect_scores) ==
    WeaknessesOf(reviews, mentioned,
        SelectSeq(Aspects(mentioned),
                  LAMBDA a : aspect_scores[a] < 70 /\ aspect_scores[a] <= 40))

\* lines 380-383
SummaryHead(hotel_name, reviews, overall_score) ==
    IF Len(reviews) >= 5
    THEN "Based on " \o ToString(Len(reviews)) \o " reviews, "
            \o hotel_name \o " has an overall score of "
            \o FmtTenths(overall_score) \o "/10.0. "
    ELSE "Based on limited data (" \o ToString(Len(reviews))
            \o " reviews), " \o hotel_name
            \o " has an estimated score of "
            \o FmtTenths(overall_score) \o "/10.0. "

\* lines 380-389
Summary(hotel_name, reviews, overall_score, strengths, weaknesses) ==
    SummaryHead(hotel_name, reviews, overall_score)
        \o "Positive aspects: " \o Join(strengths, ", ") \o ". "
        \o (IF weaknesses # <<>>
            THEN "Areas for improvement: " \o Join(weaknesses, ", ") \o "."
            ELSE "")

\* lines 392-398
LocalResult(hotel_name, reviews, overall_score, aspect_scores, strengths, weaknesses) ==
    PyDict([overall_score |-> PyNum(overall_score),
            aspect_scores |-> PyDict(aspect_scores),
            summary |-> PyStr(Summary(hotel_name, reviews, overall_score,
                                      strengths, weaknesses)),
            strengths |-> PyList(strengths),
            weaknesses |-> PyList(weaknesses)])

\* lines 362-398, for the aspect scores found
LocalReport(hotel_name, reviews, mentioned, overall_score, aspect_scores) ==
    LocalResult(hotel_name, reviews, overall_score, aspect_scores,
                Strengths(reviews, mentioned, aspect_scores),
                Weaknesses(reviews, mentioned, aspect_scores))

\* lines 322-398, for the keywords mentioned and the overall score found
LocalAnalysis(hotel_name, reviews, mentioned, overall) ==
    LocalReport(hotel_name, reviews, mentioned,
                Round1(overall.num, overall.den),
                AspectScores(reviews, mentioned, overall))

analyze_reviews_with_local_method(hotel_name, reviews, keywords) ==
    IF reviews = <<>>
    THEN PyDict([overall_score |-> PyNum(0),
                 aspect_scores |-> PyDict(EmptyDict),
                 summary |-> PyStr("No reviews available for " \o hotel_name \o "."),
                 strengths |-> PyList(<<>>),
                 weaknesses |-> PyList(<<>>)])
    ELSE LocalAnalysis(hotel_name, reviews,
                       keyword_mentions(reviews, keywords),
                       LocalOverall(reviews))

(***************************************************************************)
(* analyze_reviews_with_gemini (src/main.py 188-253).                      *)
(*                                                                         *)
(* The answer of the model is either a failure of the call or a text.  A   *)
(* text is a sequence of chunks: the code fence, the word json, white      *)
(* space, prose, or a whole JSON document, named by what it denotes.       *)
(***************************************************************************)
\* the chunk that stands for the three backquotes of a code fence
Fence == "<fence>"

IsSpace(c) == c \in {"\n", " "}

RECURSIVE Strip(_)
\* str.strip()
Strip(s) ==
    IF s = <<>> THEN s
    ELSE IF IsSpace(s[1]) THEN Strip(Tail(s))
    ELSE IF IsSpace(s[Len(s)]) THEN Strip(SubSeq(s, 1, Len(s) - 1))
    ELSE s

StartsWith(s, prefix) ==
    Len(s) >= Len(prefix) /\ SubSeq(s, 1, Len(prefix)) = prefix

EndsWith(s, suffix) ==
    Len(s) >= Len(suffix) /\ SubSeq(s, Len(s) - Len(suffix) + 1, Len(s)) = suffix

\* lines 236-239
CleanResponse(text) ==
    IF StartsWith(text, <<Fence, "json">>) /\ EndsWith(text, <<Fence>>)
    THEN Strip(SubSeq(text, 3, Len(text) - 1))
    ELSE IF StartsWith(text, <<Fence>>) /\ EndsWith(text, <<Fence>>)
    THEN Strip(SubSeq(text, 2, Len(text) - 1))
    ELSE text

required_keys ==
    <<"overall_score", "aspect_scores", "summary", "strengths", "weaknesses">>

\* the JSON documents of the vocabulary, as json.loads returns them
JsonDocs ==
    [d \in {"{full}", "{}", "{high}", "{textscore}", "{nullscore}",
            "[]", "[keys]", "7", "null"} |->
        CASE d = "{full}" ->
                PyDict([overall_score |-> PyNum(82),
                        aspect_scores |-> PyDict([clean |-> 90]),
                        summary |-> PyStr("A solid hotel."),
                        strengths |-> PyList(<<"Clean rooms">>),
                        weaknesses |-> PyList(<<>>)])
          [] d = "{}" -> PyDict(EmptyDict)
          [] d = "{high}" ->
                PyDict([overall_score |-> PyNum(500),
                        summary |-> PyStr("Outstanding.")])
          [] d = "{textscore}" ->
                PyDict([overall_score |-> PyStr("8.5"),
                        summary |-> PyStr("Good.")])
          [] d = "{nullscore}" ->
                PyDict([overall_score |-> PyNone,
                        aspect_scores |-> PyNone,
                        summary |-> PyNone,
                        strengths |-> PyNone,
                        weaknesses |-> PyNone])
          [] d = "[]" -> PyList(<<>>)
          [] d = "[keys]" -> PyList(required_keys)
          [] d = "7" -> PyNum(70)
          [] d = "null" -> PyNone]

\* json.loads: white space around one document, and nothing else
Document(body) ==
    IF Len(body) = 1 /\ body[1] \in DOMAIN JsonDocs THEN JsonDocs[body[1]]
    ELSE Raise("JSONDecodeError")

json_loads(text) == Document(Strip(text))

\* `key in analysis`; a TypeError for a value that is no container
HasKey(analysis, key) ==
    CASE analysis.t = "dict" -> key \in DOMAIN analysis.map
      [] analysis.t = "list" ->
            \E i \in 1..Len(analysis.items) : analysis.items[i] = key
      [] OTHER -> FALSE

\* lines 248-250
KeyDefault(key) ==
    IF key \in {"strengths", "weaknesses"} THEN PyList(<<>>)
    ELSE IF key = "aspect_scores" THEN PyDict(EmptyDict)
    ELSE IF key = "summary" THEN PyStr("No data")
    ELSE PyNum(50)

\* lines 245-250: `key not in analysis` needs a container, and
\* `analysis[key] = ...` with a text key needs a dict
Backfill(analysis) ==
    IF analysis.t \notin {"dict", "list"} THEN Raise("TypeError")
    ELSE IF \A i \in 1..Len(required_keys) : HasKey(analysis, required_keys[i])
    THEN analysis
    ELSE IF analysis.t # "dict" THEN Raise("TypeError")
    ELSE PyDict([k \in DOMAIN analysis.map
                       \cup {required_keys[i] : i \in 1..Len(required_keys)} |->
                    IF k \in DOMAIN analysis.map THEN analysis.map[k]
                    ELSE KeyDefault(k)])

\* response: [raises |-> TRUE], or [raises |-> FALSE, text |-> chunks]
\* lines 242-253: an exception of json.loads goes on to the caller
Loaded(analysis) == IF IsRaise(analysis) THEN analysis ELSE Backfill(analysis)

analyze_reviews_with_gemini(hotel_name, reviews, keywords, response) ==
    IF response.raises THEN Raise("TransportError")
    ELSE Loaded(json_loads(CleanResponse(response.text)))

(***************************************************************************)
(* analyze_hotel_reviews (src/main.py 150-185).                            *)
(***************************************************************************)

\* a slip: the test for an empty list is lost
NoReviewsNever(reviews) == FALSE

\* line 163: `not reviews`
NoReviews(reviews) == reviews = <<>>

\* a slip: the threshold is one review too low
FewReviewsBelowOne(reviews) == Len(reviews) < 1

\* line 174
FewReviews(reviews) == Len(reviews) < 2

\* lines 179-185: try the model, and on any exception the local method
OrLocal(gemini_analysis, local_analysis) ==
    IF IsRaise(gemini_analysis) THEN local_analysis ELSE gemini_analysis

GeminiOrLocal(hotel_name, reviews, keywords, response) ==
    OrLocal(analyze_reviews_with_gemini(hotel_name, reviews, keywords, response),
            analyze_reviews_with_local_method(hotel_name, reviews, keywords))

\* value: what is returned; model_calls: the calls of generate_content made
analyze_hotel_reviews(hotel_name, reviews, keywords, response) ==
    IF NoReviews(reviews)
    THEN [value |->
            PyDict([overall_score |-> PyNum(0),
                    aspect_scores |-> PyDict(EmptyDict),
                    summary |-> PyStr("No reviews available for analysis."),
                    strengths |-> PyList(<<>>),
                    weaknesses |-> PyList(<<>>)]),
          model_calls |-> 0]
    ELSE IF FewReviews(reviews)
    THEN [value |-> analyze_reviews_with_local_method(hotel_name, reviews, keywords),
          model_calls |-> 0]
    ELSE [value |-> GeminiOrLocal(hotel_name, reviews, keywords, response),
          model_calls |-> 1]

(***************************************************************************)
(* The inputs of the analysis engine.                                      *)
(***************************************************************************)
ReviewKinds ==
    { [text |-> <<"Great", "breakfast">>, rating |-> <<"4", ".", "1">>],
      [text |-> <<"bad", "service">>],
      [text |-> <<"not", "good">>, rating |-> <<"N", "/", "A">>],
      [text |-> <<"clean", "room">>, rating |-> <<"8">>],
      [rating |-> <<"3", ".", "2">>],
      [text |-> <<>>, rating |-> <<"0">>] }

SeqsUpTo(S, n) == UNION {[1..k -> S] : k \in 0..n}

KeywordLists ==
    { <<>>, <<"breakfast", "Clean">>, <<"service", "value", "service">> }

ModelTexts ==
    { <<d>> : d \in DOMAIN JsonDocs }
    \cup { <<Fence, "json", "\n", "{full}", "\n", Fence>>,
           <<Fence, "\n", "{}", "\n", Fence>>,
           <<Fence, "json", "\n", "{full}", "\n", Fence, "\n">>,
           <<Fence, "json", "{full}">>,
           <<"Sure,", "{full}">>,
           <<" ", "{high}", "\n">>,
           <<Fence>>,
           <<>> }

ModelResponses ==
    { [raises |-> TRUE] } \cup { [raises |-> FALSE, text |-> x] : x \in ModelTexts }

(***************************************************************************)
(* The analysis engine on its own: one call of analyze_hotel_reviews.      *)
(***************************************************************************)
InitAnalyze ==
    /\ pc = "analyze"
    /\ context = EmptyDict
    /\ trace = <<>>
    /\ listingCalls = 0
    /\ modelCalls = 0
    /\ args \in [hotel_name : {"Ritz"},
                 reviews : SeqsUpTo(ReviewKinds, MaxReviews),
                 keywords : KeywordLists,
                 response : ModelResponses]
    /\ ret = PyNone

\* the call returned r.value after r.model_calls calls of the model
Returned(r) ==
    /\ ret' = r.value
    /\ modelCalls' = modelCalls + r.model_calls

AnalyzeCall ==
    /\ pc = "analyze"
    /\ Returned(analyze_hotel_reviews(args.hotel_name, args.reviews,
                                      args.keywords, args.response))
    /\ pc' = "returned"
    /\ UNCHANGED <<context, trace, listingCalls, args>>

NextAnalyze == AnalyzeCall

SpecAnalyze == InitAnalyze /\ [][NextAnalyze]_vars

(***************************************************************************)
(* The stages (src/main.py 402-671).                                       *)
(***************************************************************************)
\* the odd numbers t of tenths below 400 for which round((t/10)/2, 1), on
\* IEEE-754 doubles, is the upper neighbour (t+1)/2 (the binary value of
\* t/10 decides the tie)
HalfRoundsUp ==
    {
      1, 9, 11, 13, 15, 21, 27, 31, 35, 37, 47, 49, 55, 57, 59, 67, 69, 75,
      77, 79, 83, 89, 93, 95, 99, 103, 109, 113, 115, 119, 123, 129, 133,
      135, 139, 143, 149, 153, 155, 159, 161, 163, 171, 173, 175, 181, 183,
      191, 193, 195, 201, 203, 211, 213, 215, 221, 223, 231, 233, 235, 241,
      243, 251, 253, 255, 261, 263, 271, 273, 275, 281, 283, 291, 293, 295,
      301, 303, 311, 313, 315, 321, 327, 331, 335, 337, 341, 347, 351, 355,
      357, 361, 367, 371, 375, 377, 381, 387, 391, 395, 397
    }

\* a slip: the score stays on the ten-point scale
HalfScoreNotHalved(overall_score) == overall_score

\* line 584: round(overall_score / 2, 1), in tenths
HalfScore(overall_score) ==
    IF overall_score % 2 = 0 THEN overall_score \div 2
    ELSE IF overall_score \in HalfRoundsUp THEN (overall_score + 1) \div 2
    ELSE (overall_score - 1) \div 2

\* lines 414-417 (and 493-496, 633-636, 667-670)
Safeguard(ctx) ==
    IF DOMAIN ctx \cap {"location", "checkin", "checkout", "guests", "keywords",
                        "google_data", "combined_hotels", "top_hotels"} = {}
    THEN Put(ctx, "location", "Unknown")
    ELSE ctx

\* context[key] = default, whatever the caller supplied
SetDefaultAlways(ctx, key, default) == Put(ctx, key, default)

\* context[key] = context.get(key, default)
SetDefault(ctx, key, default) == Put(ctx, key, Get(ctx, key, default))

DefaultKeywords == <<"breakfast", "clean", "service", "location", "value">>

orchestrator(ctx) ==
    Safeguard(
        SetDefault(
        SetDefault(
        SetDefault(
        SetDefault(
        SetDefault(ctx, "location", "New York"),
                        "checkin", "2025-05-01"),
                        "checkout", "2025-05-03"),
                        "guests", 2),
                        "keywords", DefaultKeywords))

\* lines 135-147: the answer of the review source, or the error record
fetch_hotel_reviews(outcome) ==
    IF outcome.raises
    THEN [error |-> "TransportError", results |-> [reviews |-> <<>>]]
    ELSE outcome.json

RECURSIVE UniqueReviews(_, _)
\* lines 466-472: keep a review when its text is not empty and not seen yet
UniqueReviews(all_reviews, seen_texts) ==
    IF all_reviews = <<>> THEN <<>>
    ELSE IF Get(Head(all_reviews), "text", <<>>) # <<>>
            /\ Get(Head(all_reviews), "text", <<>>) \notin seen_texts
    THEN <<Head(all_reviews)>>
            \o UniqueReviews(Tail(all_reviews),
                    seen_texts \cup {Get(Head(all_reviews), "text", <<>>)})
    ELSE UniqueReviews(Tail(all_reviews), seen_texts)

\* the loop of line 469 started at the second review
unique_reviews_after_first(all_reviews) ==
    IF all_reviews = <<>> THEN <<>> ELSE UniqueReviews(Tail(all_reviews), {})

\* lines 466-473: seen_texts = set(), then the loop over all_reviews
unique_reviews(all_reviews) == UniqueReviews(all_reviews, {})

\* line 464
CombineReviews(inline, detailed) == inline \o detailed

(***************************************************************************)
(* The review deduplicator on its own: the inline reviews of one hotel and *)
(* the detailed reviews fetched for it are combined and deduplicated       *)
(* (lines 464-473); line 460 does so only when detailed reviews came back. *)
(***************************************************************************)
MaxCombine == 2

\* two records with the same text that differ otherwise, a third text, an
\* empty text, and a record without a text
CombineKinds ==
    { [text |-> <<"Great", "breakfast">>, rating |-> <<"4", ".", "1">>],
      [text |-> <<"Great", "breakfast">>, source |-> "detailed"],
      [text |-> <<"bad", "service">>],
      [text |-> <<>>, rating |-> <<"3", ".", "2">>],
      [rating |-> <<"2">>] }

InitCombine ==
    /\ pc = "combine"
    /\ context = EmptyDict
    /\ trace = <<>>
    /\ listingCalls = 0
    /\ modelCalls = 0
    /\ args \in [inline : SeqsUpTo(CombineKinds, MaxCombine),
                 detailed : SeqsUpTo(CombineKinds, MaxCombine) \ {<<>>}]
    /\ ret = PyNone

CombineCall ==
    /\ pc = "combine"
    /\ ret' = unique_reviews(CombineReviews(args.inline, args.detailed))
    /\ pc' = "combined"
    /\ UNCHANGED <<context, trace, listingCalls, modelCalls, args>>

NextCombine == CombineCall

SpecCombine == InitCombine /\ [][NextCombine]_vars

\* lines 460-473, for the reviews fetched for the hotel
Detailed(hotel, reviews) ==
    IF reviews # <<>>
    THEN Put(Put(hotel, "detailed_reviews", reviews),
             "reviews",
             unique_reviews(CombineReviews(Get(hotel, "reviews", <<>>), reviews)))
    ELSE hotel

\* lines 454-473: one hotel with the detailed reviews fetched for it
WithReviews(hotel, outcome) ==
    Detailed(hotel,
             Get(Get(fetch_hotel_reviews(outcome), "results", EmptyDict),
                 "reviews", <<>>))

\* line 446: hotels[:5]
ReviewFetchLimit == 5

FirstHotels(hotels) == SubSeq(hotels, 1, Min2(ReviewFetchLimit, Len(hotels)))

\* lines 447-449: the hotels of the listing for which reviews are fetched
NamedIndices(hotels) ==
    {i \in 1..Len(FirstHotels(hotels)) : Get(hotels[i], "name", "") # ""}

RECURSIVE HotelsWithReviews(_, _, _)
\* lines 444-475
HotelsWithReviews(hotels, fetch, i) ==
    IF i > Len(FirstHotels(hotels)) THEN <<>>
    ELSE IF i \in NamedIndices(hotels)
    THEN <<WithReviews(hotels[i], fetch[i])>> \o HotelsWithReviews(hotels, fetch, i + 1)
    ELSE HotelsWithReviews(hotels, fetch, i + 1)

\* result.get("results", {}).get("hotels", [])
HotelsOf(result) == Get(Get(result, "results", EmptyDict), "hotels", <<>>)

\* lines 489-491
OnListingError(ctx, kind) ==
    Put(ctx, "google_data", [error |-> kind, results |-> [hotels |-> <<>>]])

\* lines 478-480, for the answer of the listing source
Listed(ctx, result, hotels_with_reviews) ==
    IF hotels_with_reviews # <<>>
    THEN Put(ctx, "google_data",
             Put(result, "results",
                 Put(result["results"], "hotels", hotels_with_reviews)))
    ELSE Put(ctx, "google_data", result)

\* listing: the outcome of brightdata_mcp_query: [kind |-> "raises"], or
\* [kind |-> "array"] (a JSON document that is no object), or
\* [kind |-> "object", json |-> the object];
\* fetch[i]: the outcome of the review source for hotel i of the listing
google_hotel_agent(ctx, listing, fetch) ==
    Safeguard(
        IF listing.kind = "raises" THEN OnListingError(ctx, "TransportError")
        ELSE IF listing.kind = "array" THEN OnListingError(ctx, "AttributeError")
        ELSE Listed(ctx, listing.json,
                    HotelsWithReviews(HotelsOf(listing.json), fetch, 1)))

\* lines 640-671
combiner_agent(ctx) ==
    Safeguard(Put(ctx, "combined_hotels",
                  [google |-> Get(ctx, "google_data", EmptyDict)]))

(***************************************************************************)
(* scorer_agent (src/main.py 499-637).                                     *)
(***************************************************************************)

\* a slip: the hotel gets the source tag of its review
SampleHotelMistagged(location) ==
    [name |-> "Sample Hotel 1",
     score |-> 45,
     source |-> "sample_data",
     address |-> "123 Main St, " \o location,
     rating |-> <<"4", ".", "5">>,
     reviews |-> <<>>,
     llm_analysis |->
        PyDict([overall_score |-> PyNum(85),
                aspect_scores |-> PyDict(EmptyDict),
                summary |->
                    PyStr("This is a sample hotel with excellent service and amenities."),
                strengths |-> PyList(<<>>),
                weaknesses |-> PyList(<<>>)])]

\* lines 527-557
SampleHotel(location) ==
    [name |-> "Sample Hotel 1",
     score |-> 45,
     source |-> "sample",
     address |-> "123 Main St, " \o location,
     rating |-> <<"4", ".", "5">>,
     reviews |->
        << [text |-> <<"Great", "hotel", "with", "excellent", "service",
                       "and", "amenities.">>,
            rating |-> <<"4", ".", "5">>,
            date |-> "April 2025",
            author |-> "Sample Reviewer",
            source |-> "sample_data"] >>,
     llm_analysis |->
        PyDict([overall_score |-> PyNum(85),
                aspect_scores |->
                    PyDict([breakfast |-> 80, clean |-> 90, service |-> 95,
                            location |-> 80, value |-> 80]),
                summary |->
                    PyStr("This is a sample hotel with excellent service and amenities."),
                strengths |->
                    PyList(<<"Excellent service", "Clean rooms", "Good breakfast">>),
                weaknesses |-> PyList(<<>>)])]

\* lines 568-572: the detailed reviews when there are any, else the reviews
ReviewsFor(hotel) ==
    IF Get(hotel, "detailed_reviews", <<>>) # <<>>
    THEN Get(hotel, "detailed_reviews", <<>>)
    ELSE Get(hotel, "reviews", <<>>)

\* the hotels whose analysis asks the model (lines 163, 174, 181)
ModelCallers(hotels_data) ==
    {i \in 1..Len(hotels_data) :
        /\ ~NoReviews(ReviewsFor(hotels_data[i]))
        /\ ~FewReviews(ReviewsFor(hotels_data[i]))}

\* lines 583-597
ScoredHotel(hotel, reviews, review_analysis) ==
    [name |-> Get(hotel, "name", "Unknown Hotel"),
     score |-> HalfScore(Get(review_analysis.map, "overall_score", PyNum(0)).num),
     source |-> Get(hotel, "source", "unknown"),
     address |-> Get(hotel, "address", ""),
     rating |-> Get(hotel, "rating", <<>>),
     price |-> Get(hotel, "price", ""),
     reviews |-> reviews,
     review_count |-> Len(reviews),
     llm_analysis |-> review_analysis]

\* lines 575-610, for one hotel: analysis is what analyze_hotel_reviews gave
\* for its reviews, rest what the loop gives for the hotels after it.  An
\* exception ends the loop (review_analysis.get on a value that is no dict,
\* overall_score / 2 on a value that is no number).
Scored(hotel, reviews, analysis, rest) ==
    IF reviews = <<>> THEN rest
    ELSE IF analysis.value.t # "dict"
    THEN [raises |-> TRUE, scored |-> <<>>, model_calls |-> analysis.model_calls]
    ELSE IF Get(analysis.value.map, "overall_score", PyNum(0)).t # "number"
    THEN [raises |-> TRUE, scored |-> <<>>, model_calls |-> analysis.model_calls]
    ELSE [raises |-> rest.raises,
          scored |-> <<ScoredHotel(hotel, reviews, analysis.value)>> \o rest.scored,
          model_calls |-> analysis.model_calls + rest.model_calls]

\* line 580
Analysis(hotel, keywords, response) ==
    analyze_hotel_reviews(Get(hotel, "name", "Unknown Hotel"), ReviewsFor(hotel),
                          keywords, response)

RECURSIVE ScoreLoop(_, _, _, _)
\* lines 563-610, from hotel i on: the scored hotels, the calls of the model
\* made, and whether an exception ended the loop
ScoreLoop(hotels_data, keywords, responses, i) ==
    IF i > Len(hotels_data)
    THEN [raises |-> FALSE, scored |-> <<>>, model_calls |-> 0]
    ELSE Scored(hotels_data[i], ReviewsFor(hotels_data[i]),
                Analysis(hotels_data[i], keywords,
                         IF i \in DOMAIN responses THEN responses[i]
                         ELSE [raises |-> TRUE]),
                ScoreLoop(hotels_data, keywords, responses, i + 1))

\* a slip: h goes before the hotels with its score
InsertByScoreBeforeEqual(sorted, h) ==
    LET k == Cardinality({i \in 1..Len(sorted) : sorted[i].score > h.score})
    IN  SubSeq(sorted, 1, k) \o <<h>> \o SubSeq(sorted, k + 1, Len(sorted))

\* one step of list.sort: h goes behind the hotels that do not score less
InsertByScore(sorted, h) ==
    LET k == Cardinality({i \in 1..Len(sorted) : sorted[i].score >= h.score})
    IN  SubSeq(sorted, 1, k) \o <<h>> \o SubSeq(sorted, k + 1, Len(sorted))

RECURSIVE SortByScore(_)
\* line 613: scored_hotels.sort(key=score, reverse=True)
SortByScore(scored_hotels) ==
    IF scored_hotels = <<>> THEN <<>>
    ELSE InsertByScore(SortByScore(SubSeq(scored_hotels, 1, Len(scored_hotels) - 1)),
                       scored_hotels[Len(scored_hotels)])

\* line 616
TopHotels(sorted_hotels) == sorted_hotels

\* a slip: the handler lets the exception go on
OnScorerErrorRaises(ctx) == Raise("Exception")

\* lines 627-631
OnScorerError(ctx) == Put(ctx, "top_hotels", <<>>)

\* line 508: `not hotels_data`
NoHotels(hotels_data) == hotels_data = <<>>

\* lines 515-520: the hotels of the second query of the listing source
RetryHotels(retry) ==
    IF retry.kind = "object" THEN HotelsOf(retry.json) ELSE <<>>

\* lines 503-523: the hotels that are scored
HotelsData(ctx, retry) ==
    IF NoHotels(HotelsOf(Get(ctx, "google_data", EmptyDict)))
    THEN RetryHotels(retry)
    ELSE HotelsOf(Get(ctx, "google_data", EmptyDict))

\* lines 521-522: the answer to the retry is kept when it has hotels
Retried(ctx, retry) ==
    IF NoHotels(HotelsOf(Get(ctx, "google_data", EmptyDict)))
       /\ ~NoHotels(RetryHotels(retry))
    THEN Put(ctx, "google_data", retry.json)
    ELSE ctx

\* lines 508-511: the calls of the listing source made
Retries(ctx) ==
    IF NoHotels(HotelsOf(Get(ctx, "google_data", EmptyDict))) THEN 1 ELSE 0

\* lines 612-631, for what the loop gave
Ranked(ctx, loop, save_ok) ==
    IF loop.raises \/ ~save_ok THEN OnScorerError(ctx)
    ELSE Put(ctx, "top_hotels", TopHotels(SortByScore(loop.scored)))

\* lines 560-637, for what the loop gave
Scoring(ctx, listing_calls, save_ok, loop) ==
    [context |-> Safeguard(Ranked(ctx, loop, save_ok)),
     listing_calls |-> listing_calls,
     model_calls |-> loop.model_calls]

\* retry: the outcome of the second query of the listing source, when it is
\* made; responses[i]: the answer of the model for hotel i; save_ok: whether
\* save_hotel_rankings_to_file returns.
\* context: the context returned; listing_calls, model_calls: the calls made
scorer_agent(ctx, retry, responses, save_ok) ==
    IF NoHotels(HotelsData(ctx, retry))
    THEN [context |->
            Put(Retried(ctx, retry), "top_hotels",
                <<SampleHotel(Get(ctx, "location", "New York"))>>),
          listing_calls |-> Retries(ctx),
          model_calls |-> 0]
    ELSE Scoring(Retried(ctx, retry), Retries(ctx), save_ok,
                 ScoreLoop(HotelsData(ctx, retry), Get(ctx, "keywords", <<>>),
                           responses, 1))

(***************************************************************************)
(* The graph (src/main.py 675-686).                                        *)
(***************************************************************************)
entry_point == "orchestrator"

graph_edges ==
    [orchestrator |-> "google_hotel_agent",
     google_hotel_agent |-> "combiner_agent",
     combiner_agent |-> "scorer_agent",
     scorer_agent |-> "END"]

\* a node returned r: an exception ends the run, a context goes on
AfterNode(node, r) ==
    /\ trace' = Append(trace, node)
    /\ IF IsRaise(r)
       THEN pc' = "raised" /\ UNCHANGED context
       ELSE pc' = graph_edges[node] /\ context' = r

(***************************************************************************)
(* The inputs of a run.                                                    *)
(***************************************************************************)
MaxHotels == 2

MaxWide == 6

RvGood == [text |-> <<"Great", "breakfast">>, rating |-> <<"4", ".", "1">>]

RvBad == [text |-> <<"bad", "service">>]

RvTen == [text |-> <<"clean", "room">>, rating |-> <<"8">>]

RvFair == [text |-> <<"fair", "room">>, rating |-> <<"3", ".", "2">>]

RvPoor == [text |-> <<"small", "room">>, rating |-> <<"2">>]

HotelKinds ==
    { [name |-> "Ritz", rating |-> <<"4", ".", "3">>, reviews |-> <<RvGood>>],
      [name |-> "Plaza", source |-> "google"],
      [rating |-> <<"N", "/", "A">>, reviews |-> <<RvTen, RvBad>>] }

WideKinds ==
    { [name |-> "Ritz", reviews |-> <<RvFair>>],
      [name |-> "Plaza", reviews |-> <<RvGood>>],
      [reviews |-> <<RvPoor>>] }

\* the listing source gives every hotel its own address
Addressed(kinds) ==
    [i \in 1..Len(kinds) |-> Put(kinds[i], "address", ToString(i) \o " Main St")]

Listings(kinds, max) ==
    { [kind |-> "raises"], [kind |-> "array"],
      [kind |-> "object", json |-> [status |-> "ok"]] }
    \cup { [kind |-> "object", json |-> [results |-> [hotels |-> Addressed(h)]]] :
              h \in SeqsUpTo(kinds, max) }

FetchOutcomes ==
    { [raises |-> TRUE],
      [raises |-> FALSE, json |-> [results |-> [reviews |-> <<RvGood, RvGood>>]]],
      [raises |-> FALSE, json |-> [results |-> [reviews |-> <<RvTen>>]]] }

WideFetchOutcomes == { [raises |-> TRUE] }

PipelineResponses ==
    { [raises |-> TRUE] }
    \cup { [raises |-> FALSE, text |-> <<d>>] : d \in {"{full}", "{high}", "[keys]"} }

\* the contexts graph.invoke is given: any subset of the keys of HotelContext,
\* each with a value of its declared type
InitialContexts ==
    { EmptyDict,
      [location |-> "Paris"],
      [location |-> "Paris", checkin |-> "2025-06-01", checkout |-> "2025-06-05",
       guests |-> 3, keywords |-> <<"Breakfast", "service">>],
      [location |-> "", checkin |-> "", checkout |-> "", guests |-> 0,
       keywords |-> <<>>] }

WideContexts == { [location |-> "Paris"] }

(***************************************************************************)
(* A run of the graph.                                                     *)
(***************************************************************************)
InitRun(contexts) ==
    /\ pc = entry_point
    /\ context \in contexts
    /\ trace = <<>>
    /\ listingCalls = 0
    /\ modelCalls = 0
    /\ args = PyNone
    /\ ret = PyNone

\* line 405: the stage works on dict(context), so the record it was passed
\* is after the call what it was before
CopiedInput(passed_in, returned) == passed_in

\* lines 436, 647, 616: the stage assigns into the record it was passed and
\* returns that record (lines 497, 671, 637), so the record it was passed
\* is after the call the record returned
MutatedInput(passed_in, returned) == returned

\* in a run, args is the record the last stage was passed, as it is once the
\* stage has returned
Orchestrator ==
    /\ pc = "orchestrator"
    /\ AfterNode("orchestrator", orchestrator(context))
    /\ args' = CopiedInput(context, context')
    /\ UNCHANGED <<listingCalls, modelCalls, ret>>

GoogleHotelAgent(listings, fetches) ==
    /\ pc = "google_hotel_agent"
    /\ \E listing \in listings :
         \E fetch \in [NamedIndices(RetryHotels(listing)) -> fetches] :
            AfterNode("google_hotel_agent", google_hotel_agent(context, listing, fetch))
    /\ listingCalls' = listingCalls + 1
    /\ args' = MutatedInput(context, context')
    /\ UNCHANGED <<modelCalls, ret>>

CombinerAgent ==
    /\ pc = "combiner_agent"
    /\ AfterNode("combiner_agent", combiner_agent(context))
    /\ args' = MutatedInput(context, context')
    /\ UNCHANGED <<listingCalls, modelCalls, ret>>

\* scorer_agent returned r.context after the calls it counts
AfterScorer(r) ==
    /\ AfterNode("scorer_agent", r.context)
    /\ listingCalls' = listingCalls + r.listing_calls
    /\ modelCalls' = modelCalls + r.model_calls

ScorerAgent(listings, responses) ==
    /\ pc = "scorer_agent"
    /\ \E retry \in (IF NoHotels(HotelsOf(Get(context, "google_data", EmptyDict)))
                     THEN listings ELSE {[kind |-> "raises"]}) :
         \E resp \in [ModelCallers(HotelsData(context, retry)) -> responses] :
            \E save_ok \in BOOLEAN :
                AfterScorer(scorer_agent(context, retry, resp, save_ok))
    /\ args' = MutatedInput(context, context')
    /\ UNCHANGED ret

RichListings == Listings(HotelKinds, MaxHotels)

WideListings == Listings(WideKinds, MaxWide)

Init == InitRun(InitialContexts)

Next ==
    \/ Orchestrator
    \/ GoogleHotelAgent(RichListings, FetchOutcomes)
    \/ CombinerAgent
    \/ ScorerAgent(RichListings, PipelineResponses)

Spec == Init /\ [][Next]_vars

\* the node that graph.invoke has entered returns or raises
NodeReturns ==
    /\ pc \in DOMAIN graph_edges
    /\ pc' \in {graph_edges[pc], "raised"}

\* graph.invoke runs every node to its end, one after the other: a node has
\* no loop without an end, and every call to the outside is taken to return
\* or to fail.  Every step of Next from a node is a step of NodeReturns, and
\* Next is enabled wherever NodeReturns is.
FairSpec == Spec /\ WF_pc(NodeReturns)

InitWide == InitRun(WideContexts)

NextWide ==
    \/ Orchestrator
    \/ GoogleHotelAgent(WideListings, WideFetchOutcomes)
    \/ CombinerAgent
    \/ ScorerAgent(WideListings, PipelineResponses)

SpecWide == InitWide /\ [][NextWide]_vars

(***************************************************************************)
(* Properties.                                                             *)
(***************************************************************************)
StageOrder ==
    <<"orchestrator", "google_hotel_agent", "combiner_agent", "scorer_agent">>

IsPrefix(s, u) == Len(s) <= Len(u) /\ SubSeq(u, 1, Len(s)) = s

\* the hotels of the listing payload that the final context holds
FinalHotels ==
    LET google_data == context["google_data"]
    IN  IF "results" \in DOMAIN google_data
             /\ "hotels" \in DOMAIN google_data["results"]
        THEN google_data["results"]["hotels"]
        ELSE <<>>

\* the place in the listing of the hotel with this address
PlaceOf(address) ==
    CHOOSE i \in 1..Len(FinalHotels) : FinalHotels[i]["address"] = address

\* C1: whatever the listing source, the review source and the model do, a
\* run executes orchestrator, google_hotel_agent, combiner_agent and
\* scorer_agent in this order, each once, no stage raises, and the run
\* reaches the end.
C1_StagesInOrderToEnd ==
    /\ [](pc # "raised" /\ IsPrefix(trace, StageOrder))
    /\ <>(pc = "END" /\ trace = StageOrder)

\* both queries of the listing source failed, and the run ended all the same
C1_Witness ==
    /\ pc = "END"
    /\ trace = StageOrder
    /\ listingCalls = 2
    /\ "error" \in DOMAIN context["google_data"]

\* C2 (as claimed): at the end of every run the ranked result list is
\* present and holds at least one row.
C2_ResultNeverEmpty ==
    pc = "END" =>
        /\ "top_hotels" \in DOMAIN context
        /\ Len(context["top_hotels"]) >= 1

\* C3: when the listing source yields no hotel in google_hotel_agent and
\* none (or a failure) on the retry of scorer_agent, the ranked result list
\* is exactly one hotel with the source tag "sample" and a summary that is
\* not empty; the listing source is queried at most twice in a run.
C3_SampleFallback ==
    /\ listingCalls <= 2
    /\ (pc = "END" /\ FinalHotels = <<>>) =>
          /\ listingCalls = 2
          /\ Len(context["top_hotels"]) = 1
          /\ context["top_hotels"][1]["source"] = "sample"
          /\ context["top_hotels"][1]["llm_analysis"].map["summary"].t = "str"
          /\ context["top_hotels"][1]["llm_analysis"].map["summary"].str # ""

C3_Witness ==
    /\ pc = "END"
    /\ FinalHotels = <<>>
    /\ listingCalls = 2
    /\ context["top_hotels"][1]["source"] = "sample"

\* C4 (as claimed): every hotel of the ranked result has a final score in
\* [0.0, 5.0] and an analysis overall_score in [0.0, 10.0].
C4_ScoresInRange ==
    "top_hotels" \in DOMAIN context =>
        \A i \in 1..Len(context["top_hotels"]) :
            LET h == context["top_hotels"][i]
            IN  /\ h["score"] >= 0 /\ h["score"] <= 50
                /\ h["llm_analysis"].map["overall_score"].num >= 0
                /\ h["llm_analysis"].map["overall_score"].num <= 100

\* the base ratings the claim allows for a star rating: its value, or one of
\* the two defaults when it is missing or no number
BaseRatings(rating) ==
    IF rating # <<>> /\ ParseFloat(rating).ok THEN {ParseFloat(rating).val}
    ELSE {0, 30}

C6_StableRanking ==
    (pc = "END" /\ "top_hotels" \in DOMAIN context) =>
        \A i, j \in 1..Len(context["top_hotels"]) :
            i < j =>
                LET a == context["top_hotels"][i]
                    b == context["top_hotels"][j]
                IN  /\ a["score"] >= b["score"]
                    /\ a["score"] = b["score"] =>
                          PlaceOf(a["address"]) < PlaceOf(b["address"])

\* scores 3.2, 4.1, 4.1, 2.0 in the order of the listing are ranked as the
\* second, the third, the first and the fourth hotel
C6_Witness ==
    /\ pc = "END"
    /\ Len(FinalHotels) = 4
    /\ Len(context["top_hotels"]) = 4
    /\ [i \in 1..4 |-> context["top_hotels"][i]["score"]] = <<41, 41, 32, 20>>
    /\ [i \in 1..4 |-> PlaceOf(context["top_hotels"][i]["address"])] = <<2, 3, 1, 4>>

\* C7 (as claimed): the ranked result list never has more than 5 entries.
C7_AtMostFive ==
    "top_hotels" \in DOMAIN context => Len(context["top_hotels"]) <= 5

\* C8: analyze_hotel_reviews with no review returns the record with the
\* overall score 0.0, no aspect scores, the summary "No reviews available
\* for analysis.", no strengths and no weaknesses, and does not call the
\* model.
C8_NoReviewsRecord ==
    (pc = "returned" /\ args.reviews = <<>>) =>
        /\ ret = PyDict([overall_score |-> PyNum(0),
                         aspect_scores |-> PyDict(EmptyDict),
                         summary |-> PyStr("No reviews available for analysis."),
                         strengths |-> PyList(<<>>),
                         weaknesses |-> PyList(<<>>)])
        /\ modelCalls = 0

\* no review, while the model would have answered with a full record
C8_Witness ==
    /\ pc = "returned"
    /\ args.reviews = <<>>
    /\ args.response = [raises |-> FALSE, text |-> <<"{full}">>]
    /\ ret.map["overall_score"] = PyNum(0)

\* C9: with exactly one review analyze_hotel_reviews does not call the
\* model, and returns what the local method returns.
C9_OneReviewIsLocal ==
    (pc = "returned" /\ Len(args.reviews) = 1) =>
        /\ modelCalls = 0
        /\ ret = analyze_reviews_with_local_method(args.hotel_name, args.reviews,
                                                   args.keywords)

\* one review, while the model would have answered with a full record
C9_Witness ==
    /\ pc = "returned"
    /\ Len(args.reviews) = 1
    /\ args.response = [raises |-> FALSE, text |-> <<"{full}">>]
    /\ ret.map["summary"] # PyStr("A solid hotel.")

\* the answer of the model is a failure: the call failed, or the text, the
\* code fence taken off, is no JSON document, or a document that is no object
ModelFailure(response) ==
    \/ response.raises
    \/ IsRaise(json_loads(CleanResponse(response.text)))
    \/ json_loads(CleanResponse(response.text)).t # "dict"

\* C10 (as claimed): with two or more reviews, on any failure of the model
\* analyze_hotel_reviews returns what the local method returns for the same
\* inputs.
C10_FailureFallsBack ==
    (pc = "returned" /\ Len(args.reviews) >= 2 /\ ModelFailure(args.response)) =>
        ret = analyze_reviews_with_local_method(args.hotel_name, args.reviews,
                                                args.keywords)

\* C11 (as claimed): whichever strategy produced it, the record returned by
\* analyze_hotel_reviews has the five keys, with a number, a map, a text, a
\* list and a list as their values, none of them null.
C11_RecordWellFormed ==
    pc = "returned" =>
        /\ ret.t = "dict"
        /\ \A i \in 1..Len(required_keys) : required_keys[i] \in DOMAIN ret.map
        /\ ret.map["overall_score"].t = "number"
        /\ ret.map["aspect_scores"].t = "dict"
        /\ ret.map["summary"].t = "str"
        /\ ret.map["strengths"].t = "list"
        /\ ret.map["weaknesses"].t = "list"

\* the text of a review as the deduplication reads it (line 469)
TextOf(review) == Get(review, "text", <<>>)

\* the reviews of a sequence whose text is empty or missing
Textless(reviews) == SelectSeq(reviews, LAMBDA r : TextOf(r) = <<>>)

\* some non-empty text occurs twice in the sequence
RepeatsText(reviews) ==
    \E i, j \in DOMAIN reviews :
        i < j /\ TextOf(reviews[i]) # <<>> /\ TextOf(reviews[i]) = TextOf(reviews[j])

\* C12: deduplicating the output of the deduplication returns that output
\* unchanged, for every combined input sequence (repeated texts and
\* empty-text reviews included).
C12_DedupIdempotent ==
    pc = "combined" => unique_reviews(ret) = ret

\* a combined input with a repeated text and an empty-text review was
\* deduplicated, and reviews were removed
C12_Witness ==
    /\ pc = "combined"
    /\ RepeatsText(CombineReviews(args.inline, args.detailed))
    /\ Textless(CombineReviews(args.inline, args.detailed)) # <<>>
    /\ ret # <<>>
    /\ Len(ret) < Len(CombineReviews(args.inline, args.detailed))

\* C13 (as claimed): the deduplication removes no review whose text is empty
\* or missing: the empty-text reviews of the output are those of the input,
\* one entry per input occurrence, in their order.
C13_TextlessKept ==
    pc = "combined" =>
        Textless(ret) = Textless(CombineReviews(args.inline, args.detailed))

\* the first review of a sequence that has the given text
FirstWithText(reviews, text) ==
    Head(SelectSeq(reviews, LAMBDA r : TextOf(r) = text))

\* C14 (as claimed): the detailed reviews come first when the two sets are
\* combined, so for a text that a detailed review has, the record kept by the
\* deduplication is the detailed one, also when an inline review has it too.
C14_DetailedWins ==
    pc = "combined" =>
        \A k \in DOMAIN ret :
            (\E j \in DOMAIN args.detailed :
                TextOf(args.detailed[j]) = TextOf(ret[k]))
            => ret[k] = FirstWithText(args.detailed, TextOf(ret[k]))

\* C15 (as claimed): the reviews that the scoring loop passed to
\* analyze_hotel_reviews for a hotel, which it records with the scored hotel
\* (line 594), never hold two reviews with the same non-empty text, also when
\* the review source returned a review twice among the detailed reviews.
C15_ScoredReviewsDistinct ==
    "top_hotels" \in DOMAIN context =>
        \A i \in DOMAIN context["top_hotels"] :
            ~RepeatsText(context["top_hotels"][i]["reviews"])

\* the defaults of lines 406-410
OrchestratorDefaults ==
    [location |-> "New York", checkin |-> "2025-05-01", checkout |-> "2025-05-03",
     guests |-> 2, keywords |-> <<"breakfast", "clean", "service", "location", "value">>]

\* C16: the context orchestrator returns has the fields of the caller's
\* context and the five defaulted fields; a field the caller supplied keeps
\* the caller's value, and a field the caller left out has its default.
C16_DefaultsOnlyForAbsent ==
    [][pc = "orchestrator" =>
        /\ DOMAIN context' = DOMAIN context \cup DOMAIN OrchestratorDefaults
        /\ \A k \in DOMAIN context' :
              context'[k] = IF k \in DOMAIN context
                            THEN context[k]
                            ELSE OrchestratorDefaults[k]]_vars

\* orchestrator has returned for a caller who supplied the location only
C16_Witness ==
    /\ trace = <<"orchestrator">>
    /\ context["location"] = "Paris"
    /\ context["checkin"] = "2025-05-01"
    /\ context["guests"] = 2

\* the keys of the safeguards (lines 415, 494, 634)
RecognizedFields ==
    {"location", "checkin", "checkout", "guests", "keywords",
     "google_data", "combined_hotels", "top_hotels"}

\* the field is present in the context with a value that is not empty: a
\* text other than "", a number of guests other than 0, a list with an
\* element, a record with a key
NonEmptyField(k) ==
    /\ k \in DOMAIN context
    /\ CASE k \in {"location", "checkin", "checkout"} -> context[k] # ""
         [] k = "guests" -> context[k] # 0
         [] k \in {"keywords", "top_hotels"} -> Len(context[k]) > 0
         [] OTHER -> DOMAIN context[k] # {}

\* C17 (as claimed): once a stage has returned, some recognized field is
\* present in the context with a value that is not empty, for every initial
\* context, one whose supplied fields are all empty included.
C17_SomeFieldNonEmpty ==
    trace # <<>> => \E k \in RecognizedFields : NonEmptyField(k)

\* C18 (as claimed): every stage works on a copy of the context: the record
\* a stage was passed is, once the stage has returned, what it was before
\* the call.
C18_InputUnchanged ==
    [][(pc \in DOMAIN graph_edges) => (args' = context)]_vars

====
